---- MODULE Spec2Model ----
(***************************************************************************)
(* The room synchronisation engine of estimate-work (src/server.go): the   *)
(* room registry, the per-room mutex and subscriber channels, the          *)
(* long-poll handler, the mutation handler and the background              *)
(* evict-and-snapshot task, as interleaved goroutines.                     *)
(***************************************************************************)
EXTENDS Integers, Sequences, FiniteSets, TLC

\* ------------------------------------------------------------------ bounds
\* Mutation requests (POST /room/{machine}/{room}) of one run.
NumMutators == 2
\* Mutation requests of one run in which the clock runs.
NumTimedMutators == 1
\* Rooms ever allocated in one run, restored ones included.
MaxRooms == 3
\* Create-room requests (POST /room) of one run.
NumCreators == 1
\* Long-poll clients of one run in which the clock runs.
NumTimedPollers == 1
\* Long-poll clients (GET /room/{machine}/{room}/update), each re-polling.
NumPollers == 2
\* Clock resolution: ticks per second (time.Time is finer than a second).
TicksPerSec == 2
\* How far the clock runs beyond one long-poll timeout, in ticks.
ExtraTicks == 1

\* ------------------------------------------------------- program constants
\* time.After(20 * time.Second)
TimeoutSecs == 20
\* persistTime = 10 * 24 * time.Hour, in seconds
PersistSecs == 864000

TimeoutTicks == TimeoutSecs * TicksPerSec
PersistTicks == PersistSecs * TicksPerSec
MaxTime == TimeoutTicks + ExtraTicks

Mutators == 1..NumMutators
TimedMutators == 1..NumTimedMutators
TimedPollers == 11..(10 + NumTimedPollers)
Pollers == 11..(10 + NumPollers)
\* The goroutine of main's ticker loop, as a holder of room mutexes.
Bg == 0
\* An unlocked sync.Mutex.
Free == -1
\* A nil *Room / *User.
Nil == -1
\* A request header that is absent (or does not parse).
NoHeader == -1
\* r.Cookie("user") returns an error: the request carries no such cookie. A
\* cookie with the empty value ("user=") is a cookie, of value "".
NoCookie == "absent"

\* FLY_MACHINE_ID of this process, and of some other instance.
machineId == "self"
otherMachine == "other"

\* ------------------------------------------------------------------- time
\* t.Truncate(time.Second)
Truncate(t) == (t \div TicksPerSec) * TicksPerSec
\* t.Format(time.RFC1123): the text carries whole seconds only.
Format(t) == t \div TicksPerSec
\* time.Parse(time.RFC1123, s) of a header that parses.
Parse(s) == s * TicksPerSec

\* ------------------------------------------------------------------ rooms
EmptyMap == [k \in {} |-> ""]
DefaultOptions == <<"shrug", "0", "1", "2", "3", "5", "8", "13", "21", "boom">>

\* NewRoom's Room literal; the creating request's clock is t.
NewRoomRecord(t) ==
  [MachineId |-> machineId, Name |-> "", HostId |-> "", Users |-> << >>,
   Topic |-> "", Options |-> DefaultOptions, Estimates |-> EmptyMap,
   Revealed |-> FALSE, UpdatedAt |-> t]

\* (*Room).GetUser: the first user with that id, as its pointer, or nil.
RECURSIVE GetUserFrom(_, _, _)
GetUserFrom(users, id, i) ==
  IF i > Len(users) THEN Nil
  ELSE IF users[i].Id = id THEN users[i].ptr
  ELSE GetUserFrom(users, id, i + 1)

GetUser(rm, id) == GetUserFrom(rm.Users, id, 1)

\* (*Room).DisplayName
DisplayName(id, rm) == IF rm.Name # "" THEN rm.Name ELSE id

\* The form of a mutation request; "" is an absent field.
Form(userName, name, topic, estimate, show, del, options, kick) ==
  [userName |-> userName, name |-> name, topic |-> topic, estimate |-> estimate,
   show |-> show, del |-> del, options |-> options, kick |-> kick]

\* strings.TrimSpace on one comma-separated item of the options field.
TrimSpace(s) ==
  CASE s = " 1" -> "1"
    [] s = "2 " -> "2"
    [] s = " 3 " -> "3"
    [] OTHER -> s

\* strings.Split(newOptions, ",") followed by TrimSpace on each item; the
\* field is given as its comma-separated items.
SplitOptions(items) == [i \in 1..Len(items) |-> TrimSpace(items[i])]

\* Mutant of RenameUser: the new name is written to Id.
RenameUser_Id(users, ptr, name) ==
  [i \in 1..Len(users) |->
     IF users[i].ptr = ptr THEN [users[i] EXCEPT !.Id = name] ELSE users[i]]

\* user.Name = newUserName through the pointer the lookup returned.
RenameUser(users, ptr, name) ==
  [i \in 1..Len(users) |->
     IF users[i].ptr = ptr THEN [users[i] EXCEPT !.Name = name] ELSE users[i]]

\* updateRoomHandler, the user-name block: rename, or create and join.
ApplyUserName(rm, user, rq, self) ==
  IF rq.form.userName = "" THEN rm
  ELSE IF user # Nil
    THEN [rm EXCEPT !.Users = RenameUser(rm.Users, user, rq.form.userName)]
    ELSE LET userId == IF rq.cookie # NoCookie THEN rq.cookie ELSE rq.uuid
             joined == Append(rm.Users,
                          [Id |-> userId, Name |-> rq.form.userName, ptr |-> self])
         IN [rm EXCEPT !.Users = joined,
                       !.HostId = IF rm.HostId = "" THEN userId ELSE rm.HostId]

\* Mutant of ApplyNameTopic: the form values are stored whether or not the
\* fields are present.
ApplyNameTopic_Overwrite(rm, rq) ==
  [rm EXCEPT !.Name = rq.form.name, !.Topic = rq.form.topic]

\* The name and topic blocks.
ApplyNameTopic(rm, rq) ==
  [rm EXCEPT !.Name = IF rq.form.name # "" THEN rq.form.name ELSE rm.Name,
             !.Topic = IF rq.form.topic # "" THEN rq.form.topic ELSE rm.Topic]

\* The estimate block dereferences the result of a second getReqRoomUser:
\* a nil room or a nil user panics.
EstimatePanics(rm, rq, present) ==
  /\ rq.form.estimate # ""
  /\ (~present \/ rq.cookie = NoCookie \/ GetUser(rm, rq.cookie) = Nil)

\* Mutant of ApplyEstimate: a vote always stores its value.
ApplyEstimate_Set(rm, rq) ==
  IF rq.form.estimate = "" THEN rm
  ELSE [rm EXCEPT !.Estimates =
          [k \in (DOMAIN rm.Estimates) \cup {rq.cookie} |->
             IF k = rq.cookie THEN rq.form.estimate ELSE rm.Estimates[k]]]

\* The estimate block: a vote toggles the requester's estimate.
ApplyEstimate(rm, rq) ==
  IF rq.form.estimate = "" THEN rm
  ELSE LET id == rq.cookie
       IN IF id \in DOMAIN rm.Estimates /\ rm.Estimates[id] = rq.form.estimate
          THEN [rm EXCEPT !.Estimates =
                  [k \in (DOMAIN rm.Estimates) \ {id} |-> rm.Estimates[k]]]
          ELSE [rm EXCEPT !.Estimates =
                  [k \in (DOMAIN rm.Estimates) \cup {id} |->
                     IF k = id THEN rq.form.estimate ELSE rm.Estimates[k]]]

\* Mutant of Kick: the topic is reset as well.
Kick_Topic(rm) == [rm EXCEPT !.Users = << >>, !.Estimates = EmptyMap, !.Topic = ""]

\* Mutant of Kick: the estimates are kept.
Kick_UsersOnly(rm) == [rm EXCEPT !.Users = << >>]

\* The kick block: room.Users = []*User{}; room.Estimates = make(...).
Kick(rm) == [rm EXCEPT !.Users = << >>, !.Estimates = EmptyMap]

\* Mutant of DeleteEstimates: the revealed flag is left alone.
DeleteEstimates_Only(rm) == [rm EXCEPT !.Estimates = EmptyMap]

\* The delete-estimates block.
DeleteEstimates(rm) == [rm EXCEPT !.Revealed = FALSE, !.Estimates = EmptyMap]

\* The show-estimates, delete-estimates, options and kick blocks.
ApplyRest(rm, rq) ==
  LET shown == IF rq.form.show = "true" THEN [rm EXCEPT !.Revealed = TRUE] ELSE rm
      cleared == IF rq.form.del = "true" THEN DeleteEstimates(shown) ELSE shown
      opts == IF rq.form.options # << >>
              THEN [cleared EXCEPT !.Options = SplitOptions(rq.form.options)]
              ELSE cleared
  IN IF rq.form.kick = "true" THEN Kick(opts) ELSE opts

\* Mutant of Stamp: the time truncated to the second.
Stamp_Truncated(rm, t) == [rm EXCEPT !.UpdatedAt = Truncate(t)]

\* room.UpdatedAt = time.Now()
Stamp(rm, t) == [rm EXCEPT !.UpdatedAt = t]

\* updateRoomHandler from the user-name block to the kick block: the room
\* after it, and whether the handler panicked on the way (the blocks before
\* the panic have been applied).
ApplyFields(rm, user, rq, self, present) ==
  LET named == ApplyNameTopic(ApplyUserName(rm, user, rq, self), rq)
  IN IF EstimatePanics(named, rq, present)
     THEN [room |-> named, panic |-> TRUE]
     ELSE [room |-> ApplyRest(ApplyEstimate(named, rq), rq), panic |-> FALSE]

\* -------------------------------------------------------------- rendering
\* index $.Room.Estimates id: the zero value "" when the map has no such key.
EstimateOf(rm, id) == IF id \in DOMAIN rm.Estimates THEN rm.Estimates[id] ELSE ""

\* Mutant of RenderedEstimate: every estimate is shown.
RenderedEstimate_Unmasked(rm, viewer, id) == EstimateOf(rm, id)

\* The participants block, one participant's estimate cell for the viewer:
\* nothing without an estimate, the value when the room is revealed or the
\* participant is the viewer, else a question mark.
RenderedEstimate(rm, viewer, id) ==
  IF EstimateOf(rm, id) = "" THEN ""
  ELSE IF rm.Revealed \/ id = viewer THEN EstimateOf(rm, id)
  ELSE "?"

\* templates/room.html for a viewer who is a participant: what the page
\* shows of room rm (of identifier rid) to the participant viewer.
Render(rm, rid, viewer) ==
  [page |-> "room",
   roomName |-> DisplayName(rid, rm),
   manage |-> rm.HostId = viewer,
   topic |-> rm.Topic,
   revealed |-> rm.Revealed,
   options |-> [i \in 1..Len(rm.Options) |->
                  [value |-> rm.Options[i],
                   selected |-> rm.Options[i] = EstimateOf(rm, viewer)]],
   participants |-> [i \in 1..Len(rm.Users) |->
                       [name |-> rm.Users[i].Name,
                        host |-> rm.Users[i].Id = rm.HostId,
                        you |-> rm.Users[i].Id = viewer,
                        estimate |-> RenderedEstimate(rm, viewer, rm.Users[i].Id)]]]

\* templates/room.html when .User is nil: the room's name and the join form.
RenderJoin(rm, rid) == [page |-> "join", roomName |-> DisplayName(rid, rm)]

\* notFoundHandler's page.
NotFoundPage == [page |-> "notFound"]

\* ------------------------------------------------------------ persistence
\* The exported fields of Room that the model carries (Id is the map's key).
RoomFields == {"MachineId", "Name", "HostId", "Users", "Topic", "Options",
               "Estimates", "Revealed", "UpdatedAt"}

\* gob omits a field that has the zero value of its type; a map is omitted
\* only when nil, and NewRoom and delete-estimates make non-nil maps.
ZeroFields(rm) ==
  {f \in {"MachineId", "Name", "HostId", "Topic"} : rm[f] = ""}
    \cup {f \in {"Users", "Options"} : Len(rm[f]) = 0}
    \cup {f \in {"Revealed"} : ~rm[f]}

\* Mutant of EncodeTime: the text of Format, whole seconds only.
EncodeTime_Secs(t) == [sec |-> t \div TicksPerSec, nsec |-> 0]

\* time.Time's GobEncode: seconds and nanoseconds of the instant, without the
\* monotonic clock reading.
EncodeTime(t) == [sec |-> t \div TicksPerSec, nsec |-> t % TicksPerSec]

\* time.Time's GobDecode.
DecodeTime(w) == w.sec * TicksPerSec + w.nsec

\* gob's encoding of one Room: the exported non-zero fields by name; the
\* users behind the pointers of Users by value; mu and subs are unexported.
EncodeRoom(rm) ==
  [f \in RoomFields \ ZeroFields(rm) |->
     CASE f = "Users" ->
            [i \in 1..Len(rm.Users) |->
               [Id |-> rm.Users[i].Id, Name |-> rm.Users[i].Name]]
       [] f = "UpdatedAt" -> EncodeTime(rm.UpdatedAt)
       [] OTHER -> rm[f]]

\* gob's decoding into a new Room: a field that was not sent keeps its zero
\* value (a nil slice or map has no element), every user is a new object.
DecodeRoom(w) ==
  LET users == IF "Users" \in DOMAIN w THEN w["Users"] ELSE << >>
  IN [MachineId |-> IF "MachineId" \in DOMAIN w THEN w["MachineId"] ELSE "",
      Name |-> IF "Name" \in DOMAIN w THEN w["Name"] ELSE "",
      HostId |-> IF "HostId" \in DOMAIN w THEN w["HostId"] ELSE "",
      Users |-> [i \in 1..Len(users) |->
                   [Id |-> users[i].Id, Name |-> users[i].Name, ptr |-> 100 + i]],
      Topic |-> IF "Topic" \in DOMAIN w THEN w["Topic"] ELSE "",
      Options |-> IF "Options" \in DOMAIN w THEN w["Options"] ELSE << >>,
      Estimates |-> IF "Estimates" \in DOMAIN w THEN w["Estimates"] ELSE EmptyMap,
      Revealed |-> IF "Revealed" \in DOMAIN w THEN w["Revealed"] ELSE FALSE,
      UpdatedAt |-> IF "UpdatedAt" \in DOMAIN w THEN DecodeTime(w["UpdatedAt"]) ELSE 0]

\* readFromDataFile, one room: decoded, then room.MachineId = machineId.
RestoreRoom(w) == [DecodeRoom(w) EXCEPT !.MachineId = machineId]

\* The data file: absent, created but with nothing written to it yet
\* (os.Create truncates), or holding one whole encoding of the registry.
NoFile == [len |-> "absent", rooms |-> EmptyMap]
EmptyFile == [len |-> "empty", rooms |-> EmptyMap]
WholeFile(enc) == [len |-> "whole", rooms |-> enc]

\* ------------------------------------------------------------------ state
VARIABLES
  rooms,    \* the registry map `rooms`: the ids it holds (rooms[id] is object id)
  room,     \* every Room object ever allocated, by id: its exported fields
  mu,       \* Room.mu of each object: Free, or the goroutine holding it
  subs,     \* Room.subs of each object: the channels, each named by its poller
  chans,    \* per poller: what its channel roomUpdates (capacity 1) buffers
  now,      \* time.Now(), in ticks
  mpc,      \* per mutation request: where updateRoomHandler stands
  mreq,     \* per mutation request: path, cookie and form
  mloc,     \* per mutation request: the handler's locals
  ppc,      \* per poller: where getRoomUpdateHandler stands
  preq,     \* per poller: path, cookie and If-Modified-Since of the request
  ploc,     \* per poller: the handler's locals
  client,   \* per poller: the last response its client received
  cpc,      \* per create-room request: where createRoomHandler stands
  cloc,     \* per create-room request: the room it allocated
  bpc,      \* where the goroutine of main's ticker loop stands
  bloc,     \* its locals: the range loop's remaining keys and current room
  file,     \* the data file at dataFilePath
  proc,     \* the process: "running", or "fatal" after a fatal error
  race      \* history: two unsynchronised accesses of `rooms` have overlapped

mvars == <<mpc, mreq, mloc>>
pvars == <<ppc, preq, ploc, client>>
cvars == <<cpc, cloc>>
bvars == <<bpc, bloc, file>>
gvars == <<proc, race>>
vars == <<rooms, room, mu, subs, chans, now, mvars, pvars, cvars, bvars, gvars>>

\* The ids uuid.NewV7() gives rooms, in the order of their creation.
RoomIds == {"r" \o ToString(i) : i \in 1..MaxRooms}
Creators == 21..(20 + NumCreators)

NoReq == [machine |-> "", roomId |-> "", cookie |-> NoCookie,
          form |-> Form("", "", "", "", "", "", << >>, ""), uuid |-> ""]
NoMLoc == [room |-> "", user |-> Nil, i |-> 0, status |-> 0, replay |-> ""]
NoPReq == [machine |-> "", roomId |-> "", cookie |-> NoCookie, ims |-> NoHeader]
\* changed and due are history: a mutation was applied to the room since this
\* request's freshness check; a publish began while its channel was subscribed.
NoPLoc == [room |-> "", user |-> Nil, hasUpdates |-> TRUE, t0 |-> 0,
           exit |-> "", changed |-> FALSE, due |-> FALSE]
\* tok: the Last-Modified of the last response; current (history): the last
\* body the client received shows the room as it is now.
NoClient == [tok |-> NoHeader, current |-> FALSE]

NoBLoc == [todo |-> {}, cur |-> "", cutoff |-> 0]

\* uuid.NewV7() of the user a request creates: unique to the request.
Uuid(m) == "u" \o ToString(m)

\* A Room object not allocated yet.
NoRoom == [NewRoomRecord(0) EXCEPT !.MachineId = ""]

\* A room as readFromDataFile restores it: joined by A, last updated at t.
RestoredAt(t) ==
  [NewRoomRecord(t) EXCEPT !.Users = <<[Id |-> "A", Name |-> "a", ptr |-> 101]>>,
                           !.HostId = "A"]
RestoredRoom == RestoredAt(0)

\* DATA_FILE_PATH: a data file is configured.
dataFilePath == "data"

\* main after readFromDataFile restored one room: no lock held, no
\* subscriber, no request in flight.
InitWith(restored, t) ==
  /\ rooms = DOMAIN restored
  /\ room = [id \in RoomIds |-> IF id \in DOMAIN restored THEN restored[id]
                                ELSE NoRoom]
  /\ mu = [id \in RoomIds |-> Free]
  /\ subs = [id \in RoomIds |-> << >>]
  /\ chans = [p \in Pollers |-> 0]
  /\ now = t
  /\ mpc = [m \in Mutators |-> "idle"]
  /\ mreq = [m \in Mutators |-> NoReq]
  /\ mloc = [m \in Mutators |-> NoMLoc]
  /\ ppc = [p \in Pollers |-> "idle"]
  /\ preq = [p \in Pollers |-> NoPReq]
  /\ ploc = [p \in Pollers |-> NoPLoc]
  /\ client = [p \in Pollers |-> NoClient]
  /\ cpc = [c \in Creators |-> "idle"]
  /\ cloc = [c \in Creators |-> ""]
  /\ bpc = "idle"
  /\ bloc = NoBLoc
  /\ file = WholeFile([id \in DOMAIN restored |-> EncodeRoom(restored[id])])
  /\ proc = "running"
  /\ race = FALSE

Init == InitWith([id \in {"r1"} |-> RestoredRoom], 0)

\* No fatal error (log.Fatal, or one the runtime throws) has ended the process.
Running == proc = "running"

\* The process ends (cause says why): its memory and goroutines are gone,
\* the data file stays.
ExitWith(cause) ==
  /\ proc' = cause
  /\ rooms' = {}
  /\ room' = [id \in RoomIds |-> NoRoom]
  /\ mu' = [id \in RoomIds |-> Free]
  /\ subs' = [id \in RoomIds |-> << >>]
  /\ chans' = [p \in Pollers |-> 0]
  /\ mpc' = [m \in Mutators |-> "gone"]
  /\ mreq' = [m \in Mutators |-> NoReq]
  /\ mloc' = [m \in Mutators |-> NoMLoc]
  /\ ppc' = [p \in Pollers |-> "gone"]
  /\ preq' = [p \in Pollers |-> NoPReq]
  /\ ploc' = [p \in Pollers |-> NoPLoc]
  /\ cpc' = [c \in Creators |-> "gone"]
  /\ cloc' = [c \in Creators |-> ""]
  /\ bpc' = "gone"
  /\ bloc' = NoBLoc
  /\ UNCHANGED <<now, client, file>>

\* A fatal error of the runtime ends the process.
Exit == ExitWith("fatal")

\* ------------------------------------------------- accesses of `rooms`
\* A write of the map is in progress: an insert by a create-room request, or
\* the delete of the cleanup pass.
Inserting(c) == cpc[c] \in {"insert", "reinsert"}
Deleting == bpc = "delete"
WriteInProgress == Deleting \/ \E c \in Creators : Inserting(c)
\* A range loop over the map (or its encoding) is in progress.
Iterating == bpc \in {"clean", "wlock", "write", "wunlock"}
\* Two accesses, one of them a write, overlap now.
RaceNow ==
  \/ \E c \in Creators : Inserting(c) /\ (Iterating \/ Deleting)
  \/ \E c, d \in Creators : c # d /\ Inserting(c) /\ Inserting(d)

\* ------------------------------------------------- updateRoomHandler steps
\* Mutant of Foreign: no path is taken as another instance's.
Foreign_Never(mach) == FALSE

\* urlMachineId != machineId: the path names another instance.
Foreign(mach) == mach # machineId

\* A POST arrives (requests are numbered in their order of arrival): the machine check of the path, then
\* room, user := getReqRoomUser(r), before the lock is taken.
MStart(m, machines, ids, cookies, forms) ==
  /\ Running
  /\ mpc[m] = "idle"
  /\ \A k \in Mutators : k < m => mpc[k] # "idle"
  /\ \E mach \in machines, id \in ids, c \in cookies, f \in forms :
       /\ mreq' = [mreq EXCEPT ![m] = [machine |-> mach, roomId |-> id,
                                       cookie |-> c, form |-> f, uuid |-> Uuid(m)]]
       /\ IF Foreign(mach)
          THEN /\ mpc' = [mpc EXCEPT ![m] = "done"]
               /\ mloc' = [mloc EXCEPT ![m].status = 404, ![m].replay = mach]
          ELSE IF id \notin rooms
          THEN /\ mpc' = [mpc EXCEPT ![m] = "done"]
               /\ mloc' = [mloc EXCEPT ![m].status = 404]
          ELSE /\ mpc' = [mpc EXCEPT ![m] = "lock"]
               /\ mloc' = [mloc EXCEPT ![m].room = id,
                             ![m].user = IF c = NoCookie THEN Nil
                                         ELSE GetUser(room[id], c)]
  /\ race' = (race \/ WriteInProgress)
  /\ UNCHANGED <<rooms, room, mu, subs, chans, now, pvars, cvars, bvars, proc>>

\* room.mu.Lock()
MLock(m) ==
  /\ Running
  /\ mpc[m] = "lock"
  /\ mu[mloc[m].room] = Free
  /\ mu' = [mu EXCEPT ![mloc[m].room] = m]
  /\ mpc' = [mpc EXCEPT ![m] = "apply"]
  /\ UNCHANGED <<rooms, room, subs, chans, now, mreq, mloc, pvars, cvars, bvars, gvars>>

\* The pollers whose channel is in a subscriber list.
Subscribed(s) == {s[i] : i \in 1..Len(s)}

\* History: what a mutation of room id means to poller p's request in flight.
Observe(p, id, publishes) ==
  IF ploc[p].room = id /\ ppc[p] \in {"subscribe", "wait", "unsubscribe", "respond"}
  THEN [ploc[p] EXCEPT !.changed = TRUE,
                       !.due = @ \/ (publishes /\ p \in Subscribed(subs[id]))]
  ELSE ploc[p]

\* The form blocks under the lock, then room.UpdatedAt = time.Now(), and the
\* publish loop starts over room.subs. A panic in the estimate block leaves
\* the handler (net/http recovers it) with the lock still held.
MApply(m) ==
  /\ Running
  /\ mpc[m] = "apply"
  /\ LET id == mloc[m].room
         res == ApplyFields(room[id], mloc[m].user, mreq[m], m, mreq[m].roomId \in rooms)
     IN /\ client' = [p \in Pollers |-> [client[p] EXCEPT !.current = FALSE]]
        /\ IF res.panic
           THEN /\ room' = [room EXCEPT ![id] = res.room]
                /\ mpc' = [mpc EXCEPT ![m] = "panicked"]
                /\ ploc' = [p \in Pollers |-> Observe(p, id, FALSE)]
                /\ UNCHANGED mloc
           ELSE /\ room' = [room EXCEPT ![id] = Stamp(res.room, now)]
                /\ mpc' = [mpc EXCEPT ![m] = "publish"]
                /\ mloc' = [mloc EXCEPT ![m].i = 1]
                /\ ploc' = [p \in Pollers |-> Observe(p, id, TRUE)]
  /\ race' = (race \/ (mreq[m].form.estimate # "" /\ WriteInProgress))
  /\ UNCHANGED <<rooms, mu, subs, chans, now, mreq, ppc, preq, cvars, bvars, proc>>

\* What a channel send does to a buffer of capacity 1 holding n values:
\* it can proceed only when the buffer has room.
CanSend(n) == n < 1

\* sub <- true, for the next channel of room.subs; it blocks while that
\* channel's buffer is full.
MSend(m) ==
  /\ Running
  /\ mpc[m] = "publish"
  /\ mloc[m].i <= Len(subs[mloc[m].room])
  /\ LET p == subs[mloc[m].room][mloc[m].i] IN
       /\ CanSend(chans[p])
       /\ chans' = [chans EXCEPT ![p] = @ + 1]
  /\ mloc' = [mloc EXCEPT ![m].i = @ + 1]
  /\ UNCHANGED <<rooms, room, mu, subs, now, mpc, mreq, pvars, cvars, bvars, gvars>>

\* room.mu.Unlock() after the loop, and the redirect.
MUnlock(m) ==
  /\ Running
  /\ mpc[m] = "publish"
  /\ mloc[m].i > Len(subs[mloc[m].room])
  /\ mu' = [mu EXCEPT ![mloc[m].room] = Free]
  /\ mloc' = [mloc EXCEPT ![m].status = 303]
  /\ mpc' = [mpc EXCEPT ![m] = "done"]
  /\ UNCHANGED <<rooms, room, subs, chans, now, mreq, pvars, cvars, bvars, gvars>>

\* The response has been sent: the client sends its next request.
MReturn(m) ==
  /\ Running
  /\ mpc[m] = "done"
  /\ mpc' = [mpc EXCEPT ![m] = "idle"]
  /\ mloc' = [mloc EXCEPT ![m] = NoMLoc]
  /\ UNCHANGED <<rooms, room, mu, subs, chans, now, mreq, pvars, cvars, bvars, gvars>>

\* ---------------------------------------------------- getRoomHandler
\* GET /room/{machine}/{room}: the machine check of the path, then the
\* lookup; the handler reads the registry and changes nothing.
GetRoomHandler(mach, id, cookie) ==
  IF Foreign(mach)
  THEN [status |-> 404, replay |-> mach, body |-> NotFoundPage]
  ELSE IF id \notin rooms
  THEN [status |-> 404, replay |-> "", body |-> NotFoundPage]
  ELSE [status |-> 200, replay |-> "",
        body |-> IF cookie = NoCookie \/ GetUser(room[id], cookie) = Nil
                 THEN RenderJoin(room[id], id)
                 ELSE Render(room[id], id, cookie)]

\* ---------------------------------------------- getRoomUpdateHandler steps
\* A GET /room/{machine}/{room}/update arrives, with no If-Modified-Since or
\* with the Last-Modified of the last response its client received; then
\* room, user := getReqRoomUser(r): a missing room or user is redirected.
\* The handler does not read the {machine} part of the path.
PStartAt(p, machines, ids, cookies) ==
  /\ Running
  /\ ppc[p] = "idle"
  /\ \E mach \in machines, id \in ids, c \in cookies, ims \in {NoHeader, client[p].tok} :
       LET user == IF id \in rooms /\ c # NoCookie THEN GetUser(room[id], c) ELSE Nil
       IN IF id \notin rooms \/ user = Nil
          THEN /\ client' = [client EXCEPT ![p] = NoClient]
               /\ UNCHANGED <<ppc, preq, ploc>>
          ELSE /\ preq' = [preq EXCEPT ![p] = [machine |-> mach, roomId |-> id,
                                               cookie |-> c, ims |-> ims]]
               /\ ploc' = [ploc EXCEPT ![p] = [NoPLoc EXCEPT !.room = id, !.user = user]]
               /\ ppc' = [ppc EXCEPT ![p] = "check"]
               /\ UNCHANGED client
  /\ race' = (race \/ WriteInProgress)
  /\ UNCHANGED <<rooms, room, mu, subs, chans, now, mvars, cvars, bvars, proc>>

\* A long-poll whose path names this instance.
PStart(p, ids, cookies) == PStartAt(p, {machineId}, ids, cookies)

\* Mutant of MustWait: a header that does not parse waits too.
MustWait_Unparsed(updatedAt, ims) ==
  \/ ims = NoHeader
  \/ ~(Truncate(updatedAt) > Parse(ims))

\* Mutant of MustWait: Before in place of After.
MustWait_Before(updatedAt, ims) ==
  /\ ims # NoHeader
  /\ ~(Truncate(updatedAt) < Parse(ims))

\* err == nil && !room.UpdatedAt.Truncate(time.Second).After(ifModifiedSinceTime)
MustWait(updatedAt, ims) ==
  /\ ims # NoHeader
  /\ ~(Truncate(updatedAt) > Parse(ims))

\* The freshness check, reading room.UpdatedAt without the lock; a request
\* that must wait makes its channel.
PCheck(p) ==
  /\ Running
  /\ ppc[p] = "check"
  /\ LET id == ploc[p].room IN
       IF MustWait(room[id].UpdatedAt, preq[p].ims)
       THEN /\ chans' = [chans EXCEPT ![p] = 0]
            /\ ppc' = [ppc EXCEPT ![p] = "subscribe"]
            /\ UNCHANGED ploc
       ELSE /\ ploc' = [ploc EXCEPT ![p].exit = "immediate"]
            /\ ppc' = [ppc EXCEPT ![p] = "respond"]
            /\ UNCHANGED chans
  /\ UNCHANGED <<rooms, room, mu, subs, now, mvars, preq, client, cvars, bvars, gvars>>

\* room.mu.Lock(); room.subs = append(room.subs, roomUpdates);
\* room.mu.Unlock(); then the select starts its 20 s timer.
PSubscribe(p) ==
  /\ Running
  /\ ppc[p] = "subscribe"
  /\ mu[ploc[p].room] = Free
  /\ subs' = [subs EXCEPT ![ploc[p].room] = Append(@, p)]
  /\ ploc' = [ploc EXCEPT ![p].t0 = now]
  /\ ppc' = [ppc EXCEPT ![p] = "wait"]
  /\ UNCHANGED <<rooms, room, mu, chans, now, mvars, preq, client, cvars, bvars, gvars>>

\* case <-roomUpdates
PRecv(p) ==
  /\ Running
  /\ ppc[p] = "wait"
  /\ chans[p] > 0
  /\ chans' = [chans EXCEPT ![p] = @ - 1]
  /\ ploc' = [ploc EXCEPT ![p].exit = "publish"]
  /\ ppc' = [ppc EXCEPT ![p] = "unsubscribe"]
  /\ UNCHANGED <<rooms, room, mu, subs, now, mvars, preq, client, cvars, bvars, gvars>>

\* Mutant of TimerFired: time.After(20), nanoseconds: it fires at once.
TimerFired_Early(t0, t) == t >= t0

\* The timer of time.After(20 * time.Second) has fired by time t.
TimerFired(t0, t) == t >= t0 + TimeoutTicks

\* case <-time.After(20 * time.Second): hasUpdates = false
PTimeout(p) ==
  /\ Running
  /\ ppc[p] = "wait"
  /\ TimerFired(ploc[p].t0, now)
  /\ ploc' = [ploc EXCEPT ![p].exit = "timeout", ![p].hasUpdates = FALSE]
  /\ ppc' = [ppc EXCEPT ![p] = "unsubscribe"]
  /\ UNCHANGED <<rooms, room, mu, subs, chans, now, mvars, preq, client, cvars, bvars, gvars>>

\* case <-r.Context().Done(): the client went away.
PDisconnect(p) ==
  /\ Running
  /\ ppc[p] = "wait"
  /\ ploc' = [ploc EXCEPT ![p].exit = "disconnect"]
  /\ ppc' = [ppc EXCEPT ![p] = "unsubscribe"]
  /\ UNCHANGED <<rooms, room, mu, subs, chans, now, mvars, preq, client, cvars, bvars, gvars>>

\* slices.DeleteFunc(room.subs, func(s) bool { return s == roomUpdates })
DeleteSub(s, p) == SelectSeq(s, LAMBDA c : c # p)

\* room.mu.Lock(); room.subs = slices.DeleteFunc(...); room.mu.Unlock()
PUnsubscribe(p) ==
  /\ Running
  /\ ppc[p] = "unsubscribe"
  /\ mu[ploc[p].room] = Free
  /\ subs' = [subs EXCEPT ![ploc[p].room] = DeleteSub(@, p)]
  /\ ppc' = [ppc EXCEPT ![p] = "respond"]
  /\ UNCHANGED <<rooms, room, mu, chans, now, mvars, preq, ploc, client, cvars, bvars, gvars>>

\* The status the handler answers with.
Status(hasUpdates) == IF hasUpdates THEN 200 ELSE 304

\* Mutant of PRespond: answering a long-poll stamps the room.
PRespond_Touch(p) ==
  /\ Running
  /\ ppc[p] = "respond"
  /\ room' = [room EXCEPT ![ploc[p].room] = Stamp(@, now)]
  /\ client' = [client EXCEPT ![p] =
       IF ploc[p].exit = "disconnect" THEN @
       ELSE [tok |-> Format(now),
             current |-> IF Status(ploc[p].hasUpdates) = 200 THEN TRUE ELSE @.current]]
  /\ ppc' = [ppc EXCEPT ![p] = "idle"]
  /\ preq' = [preq EXCEPT ![p] = NoPReq]
  /\ ploc' = [ploc EXCEPT ![p] = NoPLoc]
  /\ chans' = [chans EXCEPT ![p] = 0]
  /\ UNCHANGED <<rooms, mu, subs, now, mvars, cvars, bvars, gvars>>

\* Last-Modified from room.UpdatedAt; 304 without a body when !hasUpdates,
\* else the rendered room. A client that went away receives nothing.
PRespond(p) ==
  /\ Running
  /\ ppc[p] = "respond"
  /\ LET id == ploc[p].room
         st == Status(ploc[p].hasUpdates)
     IN client' = [client EXCEPT ![p] =
          IF ploc[p].exit = "disconnect" THEN @
          ELSE [tok |-> Format(room[id].UpdatedAt),
                current |-> IF st = 200 THEN TRUE ELSE @.current]]
  /\ ppc' = [ppc EXCEPT ![p] = "idle"]
  /\ preq' = [preq EXCEPT ![p] = NoPReq]
  /\ ploc' = [ploc EXCEPT ![p] = NoPLoc]
  /\ chans' = [chans EXCEPT ![p] = 0]
  /\ UNCHANGED <<rooms, room, mu, subs, now, mvars, cvars, bvars, gvars>>

\* The same response built while a mutation of the room has made its writes
\* and not yet released room.mu: the handler's reads of the room take no lock,
\* so nothing orders them after those writes. The read of UpdatedAt for the
\* header observes the mutation's stamp; the reads of the template observe
\* the fields as they were before the mutation.
PRespondRacing(p) ==
  /\ Running
  /\ ppc[p] = "respond"
  /\ ploc[p].exit # "disconnect"
  /\ Status(ploc[p].hasUpdates) = 200
  /\ \E m \in Mutators : mpc[m] = "publish" /\ mloc[m].room = ploc[p].room
  /\ client' = [client EXCEPT ![p] =
       [tok |-> Format(room[ploc[p].room].UpdatedAt), current |-> FALSE]]
  /\ ppc' = [ppc EXCEPT ![p] = "idle"]
  /\ preq' = [preq EXCEPT ![p] = NoPReq]
  /\ ploc' = [ploc EXCEPT ![p] = NoPLoc]
  /\ chans' = [chans EXCEPT ![p] = 0]
  /\ UNCHANGED <<rooms, room, mu, subs, now, mvars, cvars, bvars, gvars>>

\* ------------------------------------------------- createRoomHandler steps
\* The id of the next room to be allocated.
NextRoomId == "r" \o ToString(Cardinality({id \in RoomIds : room[id] # NoRoom}) + 1)

\* A POST /room arrives: NewRoom() builds the Room and starts to insert it.
CStart(c) ==
  /\ Running
  /\ cpc[c] = "idle"
  /\ NextRoomId \in RoomIds
  /\ room' = [room EXCEPT ![NextRoomId] = NewRoomRecord(now)]
  /\ cloc' = [cloc EXCEPT ![c] = NextRoomId]
  /\ cpc' = [cpc EXCEPT ![c] = "insert"]
  /\ UNCHANGED <<rooms, mu, subs, chans, now, mvars, pvars, bvars, gvars>>

\* rooms[room.Id] = &room in NewRoom is done; rooms[room.Id] = room of the
\* handler starts. A range loop in progress may or may not produce the key.
CInsert(c) ==
  /\ Running
  /\ cpc[c] = "insert"
  /\ rooms' = rooms \cup {cloc[c]}
  /\ \/ UNCHANGED bloc
     \/ /\ Iterating \/ Deleting
        /\ bpc # "write"
        /\ bloc' = [bloc EXCEPT !.todo = @ \cup {cloc[c]}]
  /\ cpc' = [cpc EXCEPT ![c] = "reinsert"]
  /\ UNCHANGED <<room, mu, subs, chans, now, mvars, pvars, cloc, bpc, file, gvars>>

\* The handler's own insert is done; the redirect to the room is sent.
CReinsert(c) ==
  /\ Running
  /\ cpc[c] = "reinsert"
  /\ rooms' = rooms \cup {cloc[c]}
  /\ cpc' = [cpc EXCEPT ![c] = "done"]
  /\ UNCHANGED <<room, mu, subs, chans, now, mvars, pvars, cloc, bvars, gvars>>

\* The runtime detects overlapping accesses of the map, one of them a write
\* ("fatal error: concurrent map ..."), and ends the process. A request that
\* arrives now looks the map up.
RaceFatal ==
  /\ Running
  /\ \/ RaceNow
     \/ /\ WriteInProgress
        /\ \E m \in Mutators : mpc[m] = "idle"
  /\ Exit
  /\ race' = TRUE

\* ------------------------------------------- the ticker goroutine of main
\* A range loop over keys starts (the map's order is not specified), or, with
\* no keys, the pass moves on to `after`.
EnterLoop(phase, after, keys) ==
  IF keys = {}
  THEN /\ bpc' = after
       /\ bloc' = [bloc EXCEPT !.todo = {}, !.cur = ""]
  ELSE /\ bpc' = phase
       /\ \E k \in keys : bloc' = [bloc EXCEPT !.todo = keys \ {k}, !.cur = k]

\* <-writeInterval.C: a pass starts with cleanupOldRooms' loop.
BStart ==
  /\ Running
  /\ bpc = "idle"
  /\ IF rooms = {}
     THEN /\ bpc' = IF dataFilePath # "" THEN "write" ELSE "idle"
          /\ bloc' = [NoBLoc EXCEPT !.cutoff = now - PersistTicks]
     ELSE /\ bpc' = "clean"
          /\ \E k \in rooms :
               bloc' = [todo |-> rooms \ {k}, cur |-> k, cutoff |-> now - PersistTicks]
  /\ UNCHANGED <<rooms, room, mu, subs, chans, now, mvars, pvars, cvars, file, gvars>>

\* Mutant of Expired: not After in place of Before.
Expired_AtCutoff(rm, cutoff) == rm.UpdatedAt <= cutoff

\* r.UpdatedAt.Before(tenDaysAgo)
Expired(rm, cutoff) == rm.UpdatedAt < cutoff

\* After the current key: the next key of the loop, or, when the loop is
\* over, the lock loop of writeToDataFile over the keys the map then holds
\* (or the end of the pass when no data file is configured).
CleanNext(keys) ==
  IF bloc.todo # {}
  THEN /\ bpc' = "clean"
       /\ \E k \in bloc.todo : bloc' = [bloc EXCEPT !.todo = @ \ {k}, !.cur = k]
  ELSE IF dataFilePath # ""
  THEN EnterLoop("wlock", "write", keys)
  ELSE /\ bpc' = "idle"
       /\ bloc' = NoBLoc

\* cleanupOldRooms, one room: r.mu.Lock(), then either the delete starts
\* (the lock is not released) or r.mu.Unlock().
BClean ==
  /\ Running
  /\ bpc = "clean"
  /\ mu[bloc.cur] = Free
  /\ IF Expired(room[bloc.cur], bloc.cutoff)
     THEN /\ mu' = [mu EXCEPT ![bloc.cur] = Bg]
          /\ bpc' = "delete"
          /\ UNCHANGED bloc
     ELSE /\ CleanNext(rooms)
          /\ UNCHANGED mu
  /\ UNCHANGED <<rooms, room, subs, chans, now, mvars, pvars, cvars, file, gvars>>

\* delete(rooms, r.Id) is done.
BDelete ==
  /\ Running
  /\ bpc = "delete"
  /\ rooms' = rooms \ {bloc.cur}
  /\ CleanNext(rooms \ {bloc.cur})
  /\ UNCHANGED <<room, mu, subs, chans, now, mvars, pvars, cvars, file, gvars>>

\* writeToDataFile's first loop, one room: r.mu.Lock().
BWLock ==
  /\ Running
  /\ bpc = "wlock"
  /\ mu[bloc.cur] = Free
  /\ mu' = [mu EXCEPT ![bloc.cur] = Bg]
  /\ IF bloc.todo # {}
     THEN /\ \E k \in bloc.todo : bloc' = [bloc EXCEPT !.todo = @ \ {k}, !.cur = k]
          /\ UNCHANGED bpc
     ELSE /\ bpc' = "write"
          /\ bloc' = [bloc EXCEPT !.cur = ""]
  /\ UNCHANGED <<rooms, room, subs, chans, now, mvars, pvars, cvars, file, gvars>>

\* dataEncoder.Encode(rooms): every room the map holds, by its key.
Encode(keys) == [id \in keys |-> EncodeRoom(room[id])]

\* os.Create and Encode(rooms); then the unlock loop starts over the keys the
\* map holds now.
BWrite ==
  /\ Running
  /\ bpc = "write"
  /\ file' = WholeFile(Encode(rooms))
  /\ EnterLoop("wunlock", "idle", rooms)
  /\ UNCHANGED <<rooms, room, mu, subs, chans, now, mvars, pvars, cvars, gvars>>

\* os.Create(dataFilePath) alone: the file exists and is empty.
BCreate ==
  /\ Running
  /\ bpc = "write"
  /\ file' = EmptyFile
  /\ bpc' = "encode"
  /\ UNCHANGED <<rooms, room, mu, subs, chans, now, mvars, pvars, cvars, bloc, gvars>>

\* gob.NewEncoder(dataFile) and dataEncoder.Encode(rooms) after os.Create;
\* then the unlock loop starts over the keys the map holds now.
BEncode ==
  /\ Running
  /\ bpc = "encode"
  /\ file' = WholeFile(Encode(rooms))
  /\ EnterLoop("wunlock", "idle", rooms)
  /\ UNCHANGED <<rooms, room, mu, subs, chans, now, mvars, pvars, cvars, gvars>>

\* os.Create or Encode returns an error: log.Fatal, which is os.Exit(1).
BWriteFail ==
  /\ Running
  /\ bpc \in {"write", "encode"}
  /\ ExitWith("writefailed")
  /\ UNCHANGED race

\* The process is killed (or the machine stops) during writeToDataFile.
Crash ==
  /\ Running
  /\ bpc \in {"write", "encode"}
  /\ ExitWith("crashed")
  /\ UNCHANGED race

\* The process is started again: main calls readFromDataFile, which leaves
\* the registry empty when there is no file, ends the process with log.Fatal
\* when the file does not decode, and else restores every room of the file.
Restart ==
  /\ proc \in {"fatal", "writefailed", "crashed"}
  /\ IF file.len = "empty"
     THEN /\ proc' = "unrestorable"
          /\ UNCHANGED <<rooms, room, mpc, ppc, cpc, bpc>>
     ELSE /\ proc' = "running"
          /\ rooms' = DOMAIN file.rooms
          /\ room' = [id \in RoomIds |->
                        IF id \in DOMAIN file.rooms THEN RestoreRoom(file.rooms[id])
                        ELSE NoRoom]
          /\ mpc' = [m \in Mutators |-> "idle"]
          /\ ppc' = [p \in Pollers |-> "idle"]
          /\ cpc' = [c \in Creators |-> "idle"]
          /\ bpc' = "idle"
  /\ UNCHANGED <<mu, subs, chans, now, mreq, mloc, preq, ploc, client, cloc,
                 bloc, file, race>>

\* writeToDataFile's second loop, one room: r.mu.Unlock(). Unlocking an
\* unlocked mutex is a fatal error; a locked one is unlocked whoever holds it.
BWUnlock ==
  /\ Running
  /\ bpc = "wunlock"
  /\ IF mu[bloc.cur] = Free
     THEN Exit
     ELSE /\ mu' = [mu EXCEPT ![bloc.cur] = Free]
          /\ IF bloc.todo # {}
             THEN /\ \E k \in bloc.todo : bloc' = [bloc EXCEPT !.todo = @ \ {k}, !.cur = k]
                  /\ UNCHANGED bpc
             ELSE /\ bpc' = "idle"
                  /\ bloc' = NoBLoc
          /\ UNCHANGED <<rooms, room, subs, chans, now, mvars, pvars, cvars, file, proc>>
  /\ UNCHANGED race

\* ------------------------------------------------------------------ clock
\* Time passes: a tick, or the length of a long-poll timeout.
Tick ==
  /\ Running
  /\ \E d \in {1, TimeoutTicks} :
       /\ now + d <= MaxTime
       /\ now' = now + d
  /\ UNCHANGED <<rooms, room, mu, subs, chans, mvars, pvars, cvars, bvars, gvars>>

\* ------------------------------------------------------ the specifications
TopicForm == Form("", "", "t", "", "", "", << >>, "")

\* Requests against one restored room while no time passes: NumMutators
\* mutations and the long-polls of NumPollers clients, interleaved.
Next ==
  \/ \E m \in Mutators : MStart(m, {machineId}, {"r1"}, {"A"}, {TopicForm})
  \/ \E m \in Mutators : MLock(m)
  \/ \E m \in Mutators : MApply(m)
  \/ \E m \in Mutators : MSend(m)
  \/ \E m \in Mutators : MUnlock(m)
  \/ \E p \in Pollers : PStart(p, {"r1"}, {"A"})
  \/ \E p \in Pollers : PCheck(p)
  \/ \E p \in Pollers : PSubscribe(p)
  \/ \E p \in Pollers : PRecv(p)
  \/ \E p \in Pollers : PDisconnect(p)
  \/ \E p \in Pollers : PUnsubscribe(p)
  \/ \E p \in Pollers : PRespond(p)

Spec == Init /\ [][Next]_vars

\* The same requests with the clock running (so that timers fire and
\* timestamps differ), with NumTimedMutators mutations.
TimedNext ==
  \/ \E m \in TimedMutators : MStart(m, {machineId}, {"r1"}, {"A"}, {TopicForm})
  \/ \E m \in TimedMutators : MLock(m)
  \/ \E m \in TimedMutators : MApply(m)
  \/ \E m \in TimedMutators : MSend(m)
  \/ \E m \in TimedMutators : MUnlock(m)
  \/ \E p \in TimedPollers : PStart(p, {"r1"}, {"A"})
  \/ \E p \in TimedPollers : PCheck(p)
  \/ \E p \in TimedPollers : PSubscribe(p)
  \/ \E p \in TimedPollers : PRecv(p)
  \/ \E p \in TimedPollers : PTimeout(p)
  \/ \E p \in TimedPollers : PDisconnect(p)
  \/ \E p \in TimedPollers : PUnsubscribe(p)
  \/ \E p \in TimedPollers : PRespond(p)
  \/ Tick

SpecTimed == Init /\ [][TimedNext]_vars

\* The same requests and clock, with the unlocked reads of the long-poll
\* response racing the writes of a mutation.
RacyNext ==
  \/ \E m \in TimedMutators : MStart(m, {machineId}, {"r1"}, {"A"}, {TopicForm})
  \/ \E m \in TimedMutators : MLock(m)
  \/ \E m \in TimedMutators : MApply(m)
  \/ \E m \in TimedMutators : MSend(m)
  \/ \E m \in TimedMutators : MUnlock(m)
  \/ \E p \in TimedPollers : PStart(p, {"r1"}, {"A"})
  \/ \E p \in TimedPollers : PCheck(p)
  \/ \E p \in TimedPollers : PSubscribe(p)
  \/ \E p \in TimedPollers : PRecv(p)
  \/ \E p \in TimedPollers : PTimeout(p)
  \/ \E p \in TimedPollers : PDisconnect(p)
  \/ \E p \in TimedPollers : PUnsubscribe(p)
  \/ \E p \in TimedPollers : PRespond(p)
  \/ \E p \in TimedPollers : PRespondRacing(p)
  \/ Tick

SpecRacy == Init /\ [][RacyNext]_vars

\* Overlapping mutation requests that join, rename and remove participants
\* of one restored room; nobody polls and no time passes.
JoinForms == {Form("n1", "", "", "", "", "", << >>, ""),
              Form("n2", "", "", "", "", "", << >>, ""),
              Form("", "", "", "", "", "", << >>, "true")}

SerialNext ==
  \/ \E m \in Mutators : MStart(m, {machineId}, {"r1"}, {"A", "B"}, JoinForms)
  \/ \E m \in Mutators : MLock(m)
  \/ \E m \in Mutators : MApply(m)
  \/ \E m \in Mutators : MUnlock(m)

SpecSerial == Init /\ [][SerialNext]_vars

\* The registry under concurrent use: two restored rooms, the second one
\* last updated a tick before or exactly at the retention cutoff; mutations
\* and long-polls on both, create-room requests, and the ticker goroutine's
\* passes, while no time passes.
StoreNow == PersistTicks + 1

InitStore ==
  \E t \in {0, 1} :
    InitWith([id \in {"r1", "r2"} |->
                IF id = "r1" THEN RestoredAt(StoreNow) ELSE RestoredAt(t)], StoreNow)

StoreNext ==
  \/ \E m \in Mutators : MStart(m, {machineId}, {"r1", "r2"}, {"A"}, {TopicForm})
  \/ \E m \in Mutators : MLock(m)
  \/ \E m \in Mutators : MApply(m)
  \/ \E m \in Mutators : MSend(m)
  \/ \E m \in Mutators : MUnlock(m)
  \/ \E p \in TimedPollers : PStart(p, {"r2"}, {"A"})
  \/ \E p \in TimedPollers : PCheck(p)
  \/ \E p \in TimedPollers : PSubscribe(p)
  \/ \E p \in TimedPollers : PRecv(p)
  \/ \E p \in TimedPollers : PDisconnect(p)
  \/ \E p \in TimedPollers : PUnsubscribe(p)
  \/ \E p \in TimedPollers : PRespond(p)
  \/ \E c \in Creators : CStart(c)
  \/ \E c \in Creators : CInsert(c)
  \/ \E c \in Creators : CReinsert(c)
  \/ RaceFatal
  \/ BStart
  \/ BClean
  \/ BDelete
  \/ BWLock
  \/ BWrite
  \/ BWUnlock

SpecStore == InitStore /\ [][StoreNext]_vars

\* Overlapping mutation requests on a room nobody has joined yet, created at
\* an instant between two whole seconds, with the clock running: joins with
\* a participant cookie, with a cookie of empty value and with none,
\* renames, a topic change and the removal of all participants.
HostForms == {Form("n1", "", "", "", "", "", << >>, ""),
              Form("", "", "t", "", "", "", << >>, ""),
              Form("", "", "", "", "", "", << >>, "true")}

InitHost == InitWith([id \in {"r1"} |-> NewRoomRecord(1)], 1)

HostNext ==
  \/ \E m \in Mutators : MStart(m, {machineId}, {"r1"}, {"A", "", NoCookie}, HostForms)
  \/ \E m \in Mutators : MLock(m)
  \/ \E m \in Mutators : MApply(m)
  \/ \E m \in Mutators : MUnlock(m)
  \/ Tick

SpecHost == InitHost /\ [][HostNext]_vars

\* Overlapping mutation requests of every kind on a room with the host A and
\* the participant B, restored revealed or not and with or without
\* estimates: each form field alone, the empty form, and a vote together
\* with reveal and clear; sent by the host, by B and without a user cookie.
FormsEstimates == {EmptyMap,
                   [k \in {"B"} |-> "2"],
                   [k \in {"A", "B"} |-> IF k = "A" THEN "2" ELSE "3"]}

FormsRoom(revealed, estimates) ==
  [NewRoomRecord(0) EXCEPT
     !.Name = "n0", !.Topic = "t0", !.HostId = "A",
     !.Users = <<[Id |-> "A", Name |-> "a", ptr |-> 101],
                 [Id |-> "B", Name |-> "b", ptr |-> 102]>>,
     !.Revealed = revealed, !.Estimates = estimates]

KickForm == Form("", "", "", "", "", "", << >>, "true")
VoteForm == Form("", "", "", "2", "", "", << >>, "")

AllForms == {Form("n1", "", "", "", "", "", << >>, ""),
             Form("", "n", "", "", "", "", << >>, ""),
             TopicForm,
             VoteForm,
             Form("", "", "", "3", "", "", << >>, ""),
             Form("", "", "", "", "true", "", << >>, ""),
             Form("", "", "", "", "", "true", << >>, ""),
             Form("", "", "", "", "", "", <<" 1", "2 ">>, ""),
             KickForm,
             Form("", "", "", "", "", "", << >>, ""),
             Form("", "", "", "2", "true", "true", << >>, "")}

InitForms ==
  \E revealed \in BOOLEAN, estimates \in FormsEstimates :
    InitWith([id \in {"r1"} |-> FormsRoom(revealed, estimates)], 1)

FormsNext ==
  \/ \E m \in Mutators : MStart(m, {machineId}, {"r1"}, {"A", "B", NoCookie}, AllForms)
  \/ \E m \in Mutators : MLock(m)
  \/ \E m \in Mutators : MApply(m)
  \/ \E m \in Mutators : MUnlock(m)

SpecForms == InitForms /\ [][FormsNext]_vars

\* Requests whose path names this instance or another one: a mutation and
\* the long-polls of a client of the restored room, last updated before now.
Machines == {machineId, otherMachine}

InitRoute == InitWith([id \in {"r1"} |-> RestoredRoom], 1)

RouteNext ==
  \/ \E m \in TimedMutators : MStart(m, Machines, {"r1"}, {"A"}, {TopicForm})
  \/ \E m \in TimedMutators : MLock(m)
  \/ \E m \in TimedMutators : MApply(m)
  \/ \E m \in TimedMutators : MSend(m)
  \/ \E m \in TimedMutators : MUnlock(m)
  \/ \E p \in TimedPollers : PStartAt(p, Machines, {"r1"}, {"A"})
  \/ \E p \in TimedPollers : PCheck(p)
  \/ \E p \in TimedPollers : PSubscribe(p)
  \/ \E p \in TimedPollers : PRecv(p)
  \/ \E p \in TimedPollers : PDisconnect(p)
  \/ \E p \in TimedPollers : PUnsubscribe(p)
  \/ \E p \in TimedPollers : PRespond(p)

SpecRoute == InitRoute /\ [][RouteNext]_vars

\* One room from its creation on, its requests sent one after the other
\* (each after the answer to the one before):
\* A joins, B joins, A sets the options, then B votes, the host reveals and
\* the host clears, again and again; meanwhile A's page long-polls.
ScriptStep(rm) ==
  IF rm.Users = << >>
  THEN [cookie |-> "A", form |-> Form("a", "", "", "", "", "", << >>, "")]
  ELSE IF Len(rm.Users) = 1
  THEN [cookie |-> "B", form |-> Form("b", "", "", "", "", "", << >>, "")]
  ELSE IF rm.Options = DefaultOptions
  THEN [cookie |-> "A", form |-> Form("", "", "", "", "", "", <<"1", "2", "3">>, "")]
  ELSE IF rm.Revealed
  THEN [cookie |-> rm.HostId, form |-> Form("", "", "", "", "", "true", << >>, "")]
  ELSE IF "B" \in DOMAIN rm.Estimates
  THEN [cookie |-> rm.HostId, form |-> Form("", "", "", "", "true", "", << >>, "")]
  ELSE [cookie |-> "B", form |-> VoteForm]

InitScenario == InitWith([id \in {} |-> NoRoom], 0)

ScenarioNext ==
  \/ \E c \in Creators : CStart(c)
  \/ \E c \in Creators : CInsert(c)
  \/ \E c \in Creators : CReinsert(c)
  \/ \E m \in TimedMutators :
       /\ \A c \in Creators : cpc[c] = "done"
       /\ \A k \in TimedMutators : mpc[k] = "idle"
       /\ MStart(m, {machineId}, {"r1"}, {ScriptStep(room["r1"]).cookie},
                 {ScriptStep(room["r1"]).form})
  \/ \E m \in TimedMutators : MLock(m)
  \/ \E m \in TimedMutators : MApply(m)
  \/ \E m \in TimedMutators : MSend(m)
  \/ \E m \in TimedMutators : MUnlock(m)
  \/ \E m \in TimedMutators : MReturn(m)
  \/ \E p \in TimedPollers : PStart(p, {"r1"}, {"A"})
  \/ \E p \in TimedPollers : PCheck(p)
  \/ \E p \in TimedPollers : PSubscribe(p)
  \/ \E p \in TimedPollers : PRecv(p)
  \/ \E p \in TimedPollers : PDisconnect(p)
  \/ \E p \in TimedPollers : PUnsubscribe(p)
  \/ \E p \in TimedPollers : PRespond(p)

SpecScenario == InitScenario /\ [][ScenarioNext]_vars

\* The data file over the life of the process: two restored rooms,
\* mutations of the first, the ticker goroutine's passes with the write in its two steps,
\* write errors, kills during the write, and restarts from the file.
PersistForms == {Form("b", "n", "t", "", "true", "", <<" 1", "2 ">>, ""),
                 Form("", "", "", "3", "", "", << >>, ""),
                 Form("", "", "", "", "", "true", << >>, "true")}

PersistNext ==
  \/ \E m \in TimedMutators : MStart(m, {machineId}, {"r1"}, {"A", "B"}, PersistForms)
  \/ \E m \in TimedMutators : MLock(m)
  \/ \E m \in TimedMutators : MApply(m)
  \/ \E m \in TimedMutators : MUnlock(m)
  \/ BStart
  \/ BClean
  \/ BDelete
  \/ BWLock
  \/ BCreate
  \/ BEncode
  \/ BWriteFail
  \/ BWUnlock
  \/ Crash
  \/ Restart

SpecPersist == InitStore /\ [][PersistNext]_vars

\* ================================================================= claims
\* The channel a mutation in its publish loop sends to next, by its poller.
Target(m) == subs[mloc[m].room][mloc[m].i]
Sending(m) == mpc[m] = "publish" /\ mloc[m].i <= Len(subs[mloc[m].room])

\* C1: the publish step of a mutation never blocks: in every interleaving of
\* mutations and long-polls (also with waiters that have left their select
\* but not yet unsubscribed) a mutation that is sending can finish: the
\* channel it sends to has room, or its waiter is still in the select and
\* will take the value.
C1_PublishNeverBlocks ==
  \A m \in Mutators :
    Sending(m) => (CanSend(chans[Target(m)]) \/ ppc[Target(m)] = "wait")

\* C2: when a mutation publishes on a room, every waiter registered in the
\* room's subscriber set at that moment leaves its wait through the publish
\* branch (stated for the waiters whose client is still connected).
C2_PublishWakesRegistered ==
  \A p \in Pollers :
    (ppc[p] = "respond" /\ ploc[p].due /\ ploc[p].exit # "disconnect")
      => ploc[p].exit = "publish"

\* C3: no wakeup is lost: a long-poll never answers "not modified" when the
\* room was mutated after the long-poll's freshness check.
C3_NoLostWakeup ==
  \A p \in Pollers :
    (ppc[p] = "respond" /\ ~ploc[p].hasUpdates) => ~ploc[p].changed

\* No mutation request is between its arrival and its response.
MutationsStopped == \A m \in Mutators : mpc[m] \in {"idle", "done"}

\* C4: the latest state is eventually delivered to a client that re-polls with
\* the Last-Modified of its previous response. Its safety core: once
\* mutations have stopped, a client between two polls whose token makes its
\* next polls wait (so that, with no further publish, each of them times out
\* with the same token) has already been shown the room's final state.
C4_LatestStateDelivered ==
  \A p \in Pollers :
    (/\ MutationsStopped
     /\ ppc[p] = "idle"
     /\ MustWait(room["r1"].UpdatedAt, client[p].tok))
      => client[p].current

\* C6 as claimed: a long-poll whose conditional timestamp is strictly older
\* than the room's last-updated timestamp goes from its check straight to
\* the response, with the current state and without subscribing.
C6_OlderReturnsAtOnce ==
  [][\A p \in Pollers :
       (/\ ppc[p] = "check"
        /\ ppc'[p] # "check"
        /\ preq[p].ims # NoHeader
        /\ Parse(preq[p].ims) < room[ploc[p].room].UpdatedAt)
         => (/\ ppc'[p] = "respond"
             /\ ploc'[p].hasUpdates
             /\ subs' = subs)]_vars

\* C6 (amended): a long-poll whose conditional timestamp is strictly older
\* than the room's last-updated timestamp truncated to the second goes from
\* its check straight to the response, without subscribing; and it answers
\* with the current state and the room's timestamp as the next token.
C6_OlderSecondReturnsAtOnce ==
  [][\A p \in Pollers :
       /\ (/\ ppc[p] = "check"
           /\ ppc'[p] # "check"
           /\ preq[p].ims # NoHeader
           /\ Parse(preq[p].ims) < Truncate(room[ploc[p].room].UpdatedAt))
            => (/\ ppc'[p] = "respond"
                /\ ploc'[p].hasUpdates
                /\ ploc'[p].exit = "immediate"
                /\ subs' = subs)
       /\ (/\ ppc[p] = "respond"
           /\ ploc[p].exit = "immediate"
           /\ ppc'[p] = "idle")
            => (/\ client'[p].current
                /\ client'[p].tok = Format(room[ploc[p].room].UpdatedAt))]_vars

\* C6 witness: a request with an older token is about to answer at once.
C6_Witness ==
  \E p \in Pollers :
    /\ ppc[p] = "respond"
    /\ ploc[p].exit = "immediate"
    /\ preq[p].ims # NoHeader
    /\ Parse(preq[p].ims) < Truncate(room[ploc[p].room].UpdatedAt)

\* C7: a long-poll issued with the room's current timestamp, with no mutation
\* of the room during it (and its client still connected), answers "not
\* modified"; and "not modified" is answered only through the timeout branch,
\* not before the 20 seconds have elapsed.
C7_NotModifiedOnlyByTimeout ==
  \A p \in Pollers :
    ppc[p] = "respond" =>
      /\ (/\ preq[p].ims = Format(room[ploc[p].room].UpdatedAt)
          /\ ~ploc[p].changed
          /\ ploc[p].exit # "disconnect")
           => Status(ploc[p].hasUpdates) = 304
      /\ Status(ploc[p].hasUpdates) = 304
           => (ploc[p].exit = "timeout" /\ now >= ploc[p].t0 + TimeoutTicks)

\* C7 witness: such a long-poll has timed out and is about to answer.
C7_Witness ==
  \E p \in Pollers :
    /\ ppc[p] = "respond"
    /\ preq[p].ims = Format(room[ploc[p].room].UpdatedAt)
    /\ ~ploc[p].changed
    /\ ploc[p].exit = "timeout"

\* A room without the addresses of its User objects.
Visible(rm) ==
  [rm EXCEPT !.Users = [i \in 1..Len(rm.Users) |->
                          [Id |-> rm.Users[i].Id, Name |-> rm.Users[i].Name]]]

\* updateRoomHandler run alone on a room: the lookup, then the form blocks.
RunAlone(rm, m) ==
  ApplyFields(rm,
              IF mreq[m].cookie = NoCookie THEN Nil ELSE GetUser(rm, mreq[m].cookie),
              mreq[m], m, TRUE).room

\* The rooms that running the requests of S one after the other, in any
\* order, makes of rm.
RECURSIVE SerialResults(_, _)
SerialResults(S, rm) ==
  IF S = {} THEN {rm}
  ELSE UNION {SerialResults(S \ {m}, RunAlone(rm, m)) : m \in S}

\* C8: mutations of one room serialize: when overlapping mutation requests
\* have all answered, the room is as if they had run entirely one after the
\* other in some order, the requester lookup included.
C8_MutationsSerialize ==
  MutationsStopped =>
    Visible(room["r1"]) \in
      {Visible(rm) : rm \in SerialResults({m \in Mutators : mpc[m] = "done"},
                                          RestoredRoom)}

\* C5: every long-poll that subscribed removes its waiter handle on every
\* exit path: a long-poll that has left its wait can take the room lock it
\* needs to unsubscribe; that lock is never one the cleanup pass kept when
\* it evicted the room.
C5_UnsubscribesOnEveryExit ==
  \A p \in Pollers :
    ppc[p] = "unsubscribe" => ~(mu[ploc[p].room] = Bg /\ ploc[p].room \notin rooms)

\* C9: mutations against different rooms proceed independently: a mutation
\* waiting for room A's lock never depends on a request on another room B;
\* the holder of A's lock is not itself waiting for B's lock while a request
\* that operates on B holds it.
C9_RoomsIndependent ==
  \A m \in Mutators :
    (/\ mpc[m] = "lock"
     /\ mloc[m].room \in rooms
     /\ mu[mloc[m].room] = Bg
     /\ bpc = "wlock")
      => ~(/\ bloc.cur # mloc[m].room
           /\ mu[bloc.cur] \in Mutators
           /\ mloc[mu[bloc.cur]].room = bloc.cur)

\* C10: no insert or delete on the registry map overlaps, unsynchronised,
\* with another insert, delete, lookup or iteration of the map.
C10_RegistryRaceFree == ~race /\ ~RaceNow

\* A mutation that holds its room's lock and cannot go on: it panicked with
\* the lock held, or it sends to a full channel nobody receives from.
Stuck(m) ==
  \/ mpc[m] = "panicked"
  \/ Sending(m) /\ ~CanSend(chans[Target(m)]) /\ ppc[Target(m)] # "wait"

\* C11: every snapshot pass terminates and holds no room lock when it has
\* finished, under any interleaving with mutation, long-poll and create-room
\* requests: its unlock loop never meets a mutex that is not locked (a fatal
\* error of the runtime, which ends the pass), its lock loop never waits for
\* a mutation that cannot release the lock, and between passes the task
\* holds the lock of no room of the registry.
C11_SnapshotPassFinishes ==
  /\ bpc = "wunlock" => mu[bloc.cur] # Free
  /\ bpc = "wlock" /\ mu[bloc.cur] \in Mutators => ~Stuck(mu[bloc.cur])
  /\ bpc = "idle" => \A id \in rooms : mu[id] # Bg

\* C12: a snapshot never captures a torn room: whenever the pass encodes the
\* registry, it holds the lock of every room the registry holds then, rooms
\* created while the pass is running included.
C12_EncodedUnderLock ==
  bpc = "write" => \A id \in rooms : mu[id] = Bg

\* C13: if the process crashes at any point during a snapshot write, the
\* data file still holds a snapshot that restores on the next startup (the
\* previous one or the complete new one), never a partial file: whenever
\* the process has ended, the file is a whole encoding of the registry.
C13_CrashLeavesWholeFile ==
  proc \in {"fatal", "writefailed", "crashed"} => file.len = "whole"

\* C14: a failure while writing a snapshot stops at most the background
\* task: after a write error the mutation requests in flight and those yet
\* to come are still served.
C14_WriteFailureSparesRequests ==
  proc = "writefailed" => \A m \in TimedMutators : mpc[m] # "gone"

\* The fields of a room that a snapshot is to preserve.
Persistable(rm) ==
  [Name |-> rm.Name, HostId |-> rm.HostId,
   Users |-> [i \in 1..Len(rm.Users) |->
                [Id |-> rm.Users[i].Id, Name |-> rm.Users[i].Name]],
   Topic |-> rm.Topic, Options |-> rm.Options, Estimates |-> rm.Estimates,
   Revealed |-> rm.Revealed, UpdatedAt |-> rm.UpdatedAt]

\* C15: snapshot round trip: encoding a room of the registry and restoring
\* it gives name, host, participants in order, topic, options in order,
\* estimates, revealed flag and last-updated timestamp equal to the
\* original; and while the pass still holds a room's lock after the write,
\* the file restores to that room as it is, under the identifier it has in
\* the registry.
C15_SnapshotRoundTrip ==
  /\ \A id \in rooms :
       Persistable(RestoreRoom(EncodeRoom(room[id]))) = Persistable(room[id])
  /\ (Running /\ bpc = "wunlock") =>
       \A id \in rooms :
         mu[id] = Bg => /\ id \in DOMAIN file.rooms
                        /\ Persistable(RestoreRoom(file.rooms[id])) = Persistable(room[id])

\* A registry restored from a snapshot that was written after a participant
\* joined: the second participant is an object the decoder made.
C15_Witness ==
  /\ Running
  /\ \E id \in rooms :
       /\ Len(room[id].Users) = 2
       /\ room[id].Users[2].ptr = 102
       /\ room[id].UpdatedAt % TicksPerSec = 1

\* C16: after a cleanup pass every room whose last-updated timestamp is
\* older than the retention window (10 days before the pass) is absent from
\* the registry, and every room inside the window is still present and
\* unchanged: a room leaves the registry only when its timestamp is before
\* the cutoff of the pass, the steps of the pass change no room, and when
\* the loop of the pass ends no room of the registry is older than the
\* cutoff.
C16_CleanupEvictsExactlyExpired ==
  [][proc' = "running" =>
       /\ \A id \in rooms \ rooms' : room[id].UpdatedAt < bloc.cutoff
       /\ (bpc \in {"clean", "delete"} /\ <<bpc, bloc>>' # <<bpc, bloc>>) =>
            \A id \in rooms' : room'[id] = room[id]
       /\ (bpc \in {"clean", "delete"} /\ bpc' \notin {"clean", "delete"}) =>
            \A id \in rooms' : room'[id].UpdatedAt >= bloc.cutoff]_vars

\* A cleanup pass is over: it evicted the second room, expired by one tick,
\* and kept the first.
C16_Witness ==
  /\ Running
  /\ bpc \in {"wlock", "write"}
  /\ "r1" \in rooms
  /\ "r2" \notin rooms
  /\ room["r2"].UpdatedAt = bloc.cutoff - 1

\* C17: for every sequence and interleaving of mutation requests against a
\* room, the room's last-updated timestamp never decreases.
C17_UpdatedAtMonotone ==
  [][\A id \in rooms : room'[id].UpdatedAt >= room[id].UpdatedAt]_vars

\* Two mutations were applied to the room at different instants.
C17_Witness ==
  /\ \A m \in Mutators : mpc[m] = "done" /\ mloc[m].status = 303
  /\ room["r1"].UpdatedAt > 2
  /\ now > room["r1"].UpdatedAt

\* No two entries of a participant list have the same identity.
Unique(users) ==
  \A i, j \in 1..Len(users) : users[i].Id = users[j].Id => i = j

\* C18: in every reachable state a room's participant list contains no two
\* entries with the same identity, also when two join requests carrying the
\* same participant cookie overlap.
C18_ParticipantsUnique ==
  \A id \in rooms : Unique(room[id].Users)

\* A remove-all-participants request has been applied to room id.
KickApplied(id) ==
  \E m \in Mutators : /\ mloc[m].room = id
                       /\ mreq[m].form.kick = "true"
                       /\ mpc[m] \in {"publish", "done"}

\* C19: in every reachable state of a room on which no remove-all-participants
\* operation has been applied, the host field is unset or is the identity of
\* a participant in the participant list.
C19_HostIsParticipant ==
  \A id \in rooms :
    ~KickApplied(id) =>
      \/ room[id].HostId = ""
      \/ \E i \in 1..Len(room[id].Users) : room[id].Users[i].Id = room[id].HostId

\* Two participants have joined a room that had no host: the first one, who
\* carried a cookie, is the host; the second one got a new identity.
C19_Witness ==
  /\ ~KickApplied("r1")
  /\ Len(room["r1"].Users) = 2
  /\ room["r1"].HostId = "A"
  /\ room["r1"].Users[1].Id = "A"
  /\ room["r1"].Users[2].Id = Uuid(2)

\* C20: on a room whose host is unset, the first participant to join becomes
\* the host, and every later join, rename or other mutation leaves the host
\* field unchanged: the step that puts the first participant into an empty
\* list sets the host to that participant, and no step on a room that has a
\* participant or a host changes the host field.
C20_FirstJoinerIsHostForGood ==
  [][\A id \in rooms :
       /\ (room[id].Users = << >> /\ room[id].HostId = "" /\ room'[id].Users # << >>) =>
            room'[id].HostId = room'[id].Users[1].Id
       /\ (room[id].Users # << >> \/ room[id].HostId # "") =>
            room'[id].HostId = room[id].HostId]_vars

\* Request m's handler runs its form blocks in this step.
Applies(m) == mpc[m] = "apply" /\ mpc'[m] # "apply"

\* C21: a vote by a participant with value v clears that participant's
\* estimate when the existing estimate equals v and otherwise sets it to v,
\* and no other participant's estimate changes (for a request that does not
\* also clear the estimates or remove the participants).
C21_VoteToggles ==
  [][\A m \in Mutators :
       (/\ Applies(m)
        /\ mpc'[m] = "publish"
        /\ mreq[m].form.estimate # ""
        /\ mreq[m].form.del # "true"
        /\ mreq[m].form.kick # "true") =>
         LET id == mreq[m].cookie
             v == mreq[m].form.estimate
             old == room[mloc[m].room].Estimates
             new == room'[mloc[m].room].Estimates
         IN /\ IF id \in DOMAIN old /\ old[id] = v
               THEN id \notin DOMAIN new
               ELSE id \in DOMAIN new /\ new[id] = v
            /\ DOMAIN new \ {id} = DOMAIN old \ {id}
            /\ \A k \in DOMAIN old \ {id} : new[k] = old[k]]_vars

\* B, whose estimate was 2, voted 2 again: B has no estimate, and A's
\* estimate is as it was.
C21_Witness ==
  \E m \in Mutators :
    /\ mpc[m] = "publish"
    /\ mreq[m].form = VoteForm
    /\ mreq[m].cookie = "B"
    /\ DOMAIN room["r1"].Estimates = {"A"}

\* C22: a mutation request carrying the clear-estimates flag leaves the
\* estimates mapping empty and the revealed flag false, whatever the prior
\* state and whatever other fields the same request carries.
C22_ClearEmptiesAndHides ==
  [][\A m \in Mutators :
       (Applies(m) /\ mreq[m].form.del = "true") =>
         /\ room'[mloc[m].room].Estimates = EmptyMap
         /\ ~room'[mloc[m].room].Revealed]_vars

\* C23: a mutation request carrying only the remove-all-participants flag
\* empties the participant list and the estimates mapping and leaves the
\* room's topic, options and name unchanged.
C23_KickKeepsTopicOptionsName ==
  [][\A m \in Mutators :
       (Applies(m) /\ mreq[m].form = KickForm) =>
         LET old == room[mloc[m].room]
             new == room'[mloc[m].room]
         IN /\ new.Users = << >>
            /\ new.Estimates = EmptyMap
            /\ new.Topic = old.Topic
            /\ new.Options = old.Options
            /\ new.Name = old.Name]_vars

\* The participants of a room with a topic, a name and estimates have been
\* removed by a request that carried nothing else.
C23_Witness ==
  \E m \in Mutators :
    /\ mpc[m] = "publish"
    /\ mreq[m].form = KickForm
    /\ room["r1"].Users = << >>
    /\ room["r1"].Topic = "t0"
    /\ room["r1"].Name = "n0"

\* C24: in a mutation request each absent field is a no-op for its aspect of
\* the room: the name without a name field, the topic without a topic
\* field, the options without an options field, the participants and the
\* host without a user-name field (and no removal of all participants), the
\* estimates without a vote (and no clear or removal), the revealed flag
\* without reveal or clear.
C24_AbsentFieldIsNoOp ==
  [][\A m \in Mutators :
       Applies(m) =>
         LET f == mreq[m].form
             old == room[mloc[m].room]
             new == room'[mloc[m].room]
         IN /\ f.name = "" => new.Name = old.Name
            /\ f.topic = "" => new.Topic = old.Topic
            /\ f.options = << >> => new.Options = old.Options
            /\ f.userName = "" => new.HostId = old.HostId
            /\ (f.userName = "" /\ f.kick # "true") => new.Users = old.Users
            /\ (f.estimate = "" /\ f.del # "true" /\ f.kick # "true") =>
                 new.Estimates = old.Estimates
            /\ (f.show # "true" /\ f.del # "true") =>
                 new.Revealed = old.Revealed]_vars

\* A request carrying only the topic has been applied to a room that has a
\* name, participants, a host and estimates.
C24_Witness ==
  \E m \in Mutators :
    /\ mpc[m] = "publish"
    /\ mreq[m].form = TopicForm
    /\ room["r1"].Topic = "t"
    /\ room["r1"].Name = "n0"
    /\ Len(room["r1"].Users) = 2
    /\ DOMAIN room["r1"].Estimates = {"A", "B"}

\* C27: room-management changes are reserved to the host: a mutation request
\* changes a room's name, topic, options or revealed flag, clears the
\* estimates or removes all participants only when the requester is the
\* room's host.
C27_ManagementOnlyByHost ==
  [][\A m \in Mutators :
       Applies(m) =>
         LET f == mreq[m].form
             old == room[mloc[m].room]
             new == room'[mloc[m].room]
         IN (\/ new.Name # old.Name
             \/ new.Topic # old.Topic
             \/ new.Options # old.Options
             \/ new.Revealed # old.Revealed
             \/ (f.del = "true" /\ mpc'[m] = "publish")
             \/ f.kick = "true") =>
              (mreq[m].cookie # NoCookie /\ mreq[m].cookie = old.HostId)]_vars

\* C25: a view or mutate request whose path names another instance is
\* answered with the routing header naming that instance and the not-found
\* page, and is not served locally: a view of any room with any cookie is
\* answered so, and a mutation request is done on arrival with that answer,
\* having changed no room (its last-updated timestamp included), no
\* subscriber list and no waiter's channel.
C25_ForeignPathIsReplayed ==
  [][/\ \A id \in RoomIds, c \in {"A", NoCookie} :
          GetRoomHandler(otherMachine, id, c) =
            [status |-> 404, replay |-> otherMachine, body |-> NotFoundPage]
     /\ \A m \in TimedMutators :
          (mreq'[m] # mreq[m] /\ mreq'[m].machine # machineId) =>
            /\ mpc'[m] = "done"
            /\ mloc'[m].status = 404
            /\ mloc'[m].replay = mreq'[m].machine
            /\ room' = room
            /\ subs' = subs
            /\ chans' = chans]_vars

\* A mutation request for another instance has been answered while a
\* long-poll waits on the room: the room is as it was restored and nothing
\* was sent to the waiter.
C25_Witness ==
  \E m \in TimedMutators, p \in TimedPollers :
    /\ mpc[m] = "done"
    /\ mloc[m].replay = otherMachine
    /\ ppc[p] = "wait"
    /\ chans[p] = 0
    /\ room["r1"] = RestoredRoom

\* C26: a long-poll request whose path names an instance different from the
\* current process is never served from, or subscribed on, this process's
\* registry: no long-poll this process is serving carries such a path.
C26_ForeignPollNotServed ==
  \A p \in TimedPollers :
    ppc[p] # "idle" => preq[p].machine = machineId

\* The rooms that differ from rm only in the estimate values of participants
\* other than viewer.
EstimateValues == {"2", "3"}
OthersVary(rm, viewer) ==
  {[rm EXCEPT !.Estimates = e] :
     e \in {g \in [DOMAIN rm.Estimates ->
                       EstimateValues \cup {rm.Estimates[k] : k \in DOMAIN rm.Estimates}] :
              viewer \in DOMAIN rm.Estimates => g[viewer] = rm.Estimates[viewer]}}

\* C28: while a room is not revealed, what is rendered for a participant V
\* shows the estimate value of a participant P only when P is V, and two
\* room states that differ only in the estimate values of participants other
\* than V render identically for V.
C28_EstimatesMasked ==
  \A id \in rooms :
    ~room[id].Revealed =>
      \A v \in 1..Len(room[id].Users) :
        LET viewer == room[id].Users[v].Id
            page == Render(room[id], id, viewer)
        IN /\ \A i \in 1..Len(room[id].Users) :
                page.participants[i].estimate \notin {"", "?"} =>
                  room[id].Users[i].Id = viewer
           /\ \A other \in OthersVary(room[id], viewer) :
                Render(other, id, viewer) = page

\* A vote of B has been applied to a room that is not revealed: A's page
\* shows a question mark for B, and B's page shows B's value.
C28_Witness ==
  /\ ~room["r1"].Revealed
  /\ \E m \in Mutators : mpc[m] = "publish" /\ mreq[m].cookie = "B"
                          /\ mreq[m].form.estimate = "3"
  /\ Len(room["r1"].Users) = 2
  /\ Render(room["r1"], "r1", "A").participants[2].estimate = "?"
  /\ Render(room["r1"], "r1", "B").participants[2].estimate = "3"

\* The last request of the scenario has been answered, and it carried f.
Answered(m, f) == mpc[m] = "done" /\ mreq[m].form = f

\* C29: the scenario create room; A joins; B joins; A sets the options to
\* 1,2,3; B votes 2; the host reveals; the host clears, run as sequential
\* requests: A is the host from the first join on; the options are 1, 2, 3
\* once set; after the reveal B's estimate 2 is shown on A's page; after the
\* clear the estimates mapping has no entry for B and revealed is false.
C29_Scenario ==
  \A m \in TimedMutators :
    /\ ("r1" \in rooms /\ room["r1"].Users # << >>) =>
         /\ room["r1"].HostId = "A"
         /\ room["r1"].Users[1].Id = "A"
    /\ (mpc[m] = "done" /\ mreq[m].form.options # << >>) =>
         room["r1"].Options = <<"1", "2", "3">>
    /\ (mpc[m] = "done" /\ mreq[m].form.show = "true") =>
         /\ mreq[m].cookie = "A"
         /\ room["r1"].Revealed
         /\ room["r1"].Users[2].Id = "B"
         /\ Render(room["r1"], "r1", "A").participants[2].estimate = "2"
    /\ (mpc[m] = "done" /\ mreq[m].form.del = "true") =>
         /\ mreq[m].cookie = "A"
         /\ "B" \notin DOMAIN room["r1"].Estimates
         /\ ~room["r1"].Revealed

\* The host's clear has been answered at the end of the scenario.
C29_Witness ==
  \E m \in TimedMutators :
    /\ mpc[m] = "done"
    /\ mreq[m].form.del = "true"
    /\ mloc[m].status = 303
    /\ Len(room["r1"].Users) = 2
    /\ room["r1"].Options = <<"1", "2", "3">>

\* C30: a long-poll request that carries no parseable conditional timestamp
\* never subscribes or waits: from its freshness check it goes straight to
\* its response, which is the full current state (status 200) with the
\* room's last-updated timestamp as the next token.
C30_ImmediateModeNeverWaits ==
  [][\A p \in TimedPollers :
       /\ (ppc[p] = "check" /\ preq[p].ims = NoHeader /\ ppc'[p] # "check") =>
            /\ ppc'[p] = "respond"
            /\ subs' = subs
       /\ (ppc[p] = "respond" /\ preq[p].ims = NoHeader /\ ppc'[p] = "idle") =>
            /\ Status(ploc[p].hasUpdates) = 200
            /\ client'[p].tok = Format(room[ploc[p].room].UpdatedAt)
            /\ client'[p].current]_vars

\* A long-poll without a conditional timestamp, sent after a mutation was
\* answered, is about to respond.
C30_Witness ==
  \E p \in TimedPollers, m \in TimedMutators :
    /\ ppc[p] = "respond"
    /\ preq[p].ims = NoHeader
    /\ ~ploc[p].changed
    /\ mpc[m] = "done"
    /\ room["r1"].UpdatedAt > 0

\* C31: every mutation request that acquires a room's lock releases it
\* before the request ends, on every path, a request that carries a vote
\* while its requester is not a participant included: a request that has
\* ended, answered or panicked, holds no room's lock.
C31_LockReleasedOnEveryPath ==
  \A m \in Mutators :
    mpc[m] \in {"done", "panicked"} => \A id \in RoomIds : mu[id] # m

\* The requests that stand at room.mu.Lock() of room id.
WaitingFor(id) ==
  {m \in Mutators : mpc[m] = "lock" /\ mloc[m].room = id}
    \cup {p \in Pollers : ppc[p] \in {"subscribe", "unsubscribe"} /\ ploc[p].room = id}

\* C32: a mutation or long-poll request that looked up a room before a
\* cleanup pass evicted it still completes: no request stands at the lock
\* of a room that the cleanup pass has deleted from the registry and whose
\* lock the pass still holds.
C32_EvictedRoomLockFree ==
  \A id \in RoomIds :
    (id \notin rooms /\ mu[id] = Bg) => WaitingFor(id) = {}

\* C33: the snapshot pass unlocks exactly the locks it locked earlier in
\* the same pass: every room its unlock loop comes to has its lock held by
\* the pass, also a room created between the lock loop and the unlock loop.
C33_UnlocksOnlyItsOwn ==
  bpc = "wunlock" => mu[bloc.cur] = Bg

\* C34: a waiter handle is single-fire: between its subscribe and its
\* unsubscribe it is sent at most one wake signal: a waiter that has
\* received a signal and has not unsubscribed yet has no second signal in
\* its channel.
C34_SingleFire ==
  \A p \in Pollers :
    (ppc[p] = "unsubscribe" /\ ploc[p].exit = "publish") => chans[p] = 0

\* The identities of the participants of a room.
UserIds(rm) == {rm.Users[i].Id : i \in 1..Len(rm.Users)}

\* C36: whenever no mutation holds a room's lock, every key of the room's
\* estimates mapping is the identity of a participant in the room's
\* participant list.
C36_EstimatesOfParticipants ==
  \A id \in rooms :
    mu[id] \notin Mutators => DOMAIN room[id].Estimates \subseteq UserIds(room[id])

\* A vote and then the removal of all participants have been applied and
\* answered: the room has neither participants nor estimates.
C36_Witness ==
  /\ mu["r1"] = Free
  /\ room["r1"].Users = << >>
  /\ room["r1"].Estimates = EmptyMap
  /\ \E m, k \in Mutators :
       /\ mpc[m] = "done" /\ mreq[m].form = VoteForm /\ mloc[m].status = 303
       /\ mpc[k] = "done" /\ mreq[k].form = KickForm

\* C37: every value stored in a room's estimates mapping is a member of
\* that room's current options list, after any sequence of votes and option
\* changes.
C37_EstimatesAmongOptions ==
  \A id \in rooms :
    \A k \in DOMAIN room[id].Estimates :
      \E i \in 1..Len(room[id].Options) : room[id].Options[i] = room[id].Estimates[k]

C38_PollsReadOnly ==
  [][\A p \in TimedPollers :
       ppc'[p] # ppc[p] => (room' = room /\ rooms' = rooms)]_vars

\* A long-poll that subscribed, waited until its timer fired and
\* unsubscribed is about to answer, and the room is still as it was restored.
C38_Witness ==
  \E p \in TimedPollers :
    /\ ppc[p] = "respond"
    /\ ploc[p].exit = "timeout"
    /\ client[p].tok # NoHeader
    /\ subs["r1"] = << >>
    /\ room["r1"] = RestoredRoom
====
